---------------------------- MODULE Spec2Model ----------------------------
(***************************************************************************)
(* Call subsystem of the messenger: the relay-signaling edge function, the *)
(* 1:1 call controller (VideoCall / AudioCall), the group call controller  *)
(* (GroupVideoCall / GroupAudioCall) and the personal call-notification    *)
(* channel of Messenger.                                                   *)
(*                                                                         *)
(* The controllers are React function components.  A function created in   *)
(* a render reads the state values of THAT render.  The callbacks that are *)
(* installed by initializeCall (channel handler, pc.on..., the unanswered  *)
(* timeout and the [isOpen] effect's cleanup) are created in the render    *)
(* that ran the effect, so the React state they read (localStream,         *)
(* peerConnection, participants, callStatus) is that render's; refs        *)
(* (channelRef, callTimeoutRef) and browser objects (pc, stream) are read  *)
(* live.  Buttons use the functions of the last committed render.          *)
(***************************************************************************)
EXTENDS Integers, Sequences, FiniteSets, TLC

None == "none"

(***************************************************************************)
(* ------------------------- Signaling Relay ---------------------------   *)
(***************************************************************************)
Users == {"u1", "u2"}
Chats == {"c1", "c2"}

\* rows of the chat_members relation the relay queries
ChatMembers == {<<"c1", "u1">>, <<"c1", "u2">>, <<"c2", "u2">>}

\* bearer credentials a request may carry (None = no Authorization header)
AuthHeaders == {None, "Bearer bad", "Bearer u1", "Bearer u2"}

CallTypes == {"video", "audio", "group-video", "group-audio"}

MaxTime == 1

\* everything a request and its environment supply to the handler
Requests ==
  [ method     : {"POST", "OPTIONS"},
    authHeader : AuthHeaders,
    to         : {None, "u2"},
    from       : {None} \cup Users,           \* client-supplied sender hint
    message    : {"absent", "untyped", "offer"},
    chatId     : {None} \cup Chats,
    roomId     : {None} \cup Chats,
    callType   : CallTypes \cup {"teleport"},
    fault      : {"none", "json", "db", "send"},  \* which awaited call fails
    now        : 1..MaxTime ]

\* supabase.auth.getUser(): the user the bearer credential resolves to
GetUser(authHeader) ==
  CASE authHeader = "Bearer u1" -> "u1"
    [] authHeader = "Bearer u2" -> "u2"
    [] OTHER -> None

\* lines 11-34: a header is present and getUser() resolves it to a user
AuthenticatedLax(req) == req.authHeader # None

Authenticated(req) ==
  /\ req.authHeader # None
  /\ GetUser(req.authHeader) # None

\* chatId || roomId
ChatOrRoom(req) == IF req.chatId # None THEN req.chatId ELSE req.roomId

\* chat_members .eq(chat_id).eq(user_id).single(): a row, or an error
MembershipFound(req, user) ==
  /\ req.fault # "db"
  /\ <<ChatOrRoom(req), user>> \in ChatMembers

ChannelNameDefaultVideo(req) ==
  CASE req.callType = "audio"       -> <<"audio-call", req.chatId>>
    [] req.callType = "group-video" -> <<"group-video-call", req.roomId>>
    [] req.callType = "group-audio" -> <<"group-audio-call", req.roomId>>
    [] OTHER -> <<"video-call", req.chatId>>

\* the channel name: <<prefix, id>> stands for `${prefix}-${id}`
ChannelName(req) ==
  CASE req.callType = "video"       -> <<"video-call", req.chatId>>
    [] req.callType = "audio"       -> <<"audio-call", req.chatId>>
    [] req.callType = "group-video" -> <<"group-video-call", req.roomId>>
    [] req.callType = "group-audio" -> <<"group-audio-call", req.roomId>>
    [] OTHER -> None

AuthenticatedPayloadFromBody(req, user) ==
  [from |-> IF req.from # None THEN req.from ELSE user,
   to |-> req.to, message |-> req.message, timestamp |-> req.now]

AuthenticatedPayload(req, user) ==
  [from |-> user, to |-> req.to, message |-> req.message, timestamp |-> req.now]

Response(status, body) ==
  [status |-> status, body |-> body, lookups |-> 0, published |-> <<>>]

\* the handler of Deno.serve: the response, the number of membership
\* lookups made and the broadcasts published while serving req
RelayServe(req) ==
  LET user == GetUser(req.authHeader) IN
  IF req.method = "OPTIONS" THEN Response(200, "preflight")
  ELSE IF req.authHeader = None THEN Response(401, "Missing authorization header")
  ELSE IF ~Authenticated(req) THEN Response(401, "Unauthorized")
  ELSE IF req.fault = "json" THEN Response(500, "Internal server error")
  ELSE IF req.message \in {"absent", "untyped"} THEN Response(400, "Invalid message format")
  ELSE IF ~MembershipFound(req, user)
       THEN [Response(403, "Not authorized for this chat") EXCEPT !.lookups = 1]
  ELSE IF ChannelName(req) = None
       THEN [Response(400, "Invalid call type") EXCEPT !.lookups = 1]
  ELSE IF req.fault = "send"
       THEN [Response(500, "Internal server error") EXCEPT !.lookups = 1]
  ELSE [ status |-> 200, body |-> "success", lookups |-> 1,
         published |-> << [channel |-> ChannelName(req), event |-> "signaling",
                           payload |-> AuthenticatedPayload(req, user)] >> ]

VARIABLES
  relayPc,      \* "idle", "serving" (request accepted), "responded"
  relayReq,     \* the request being served (None when idle)
  relayResp     \* what serving it did: response, lookups, broadcasts

relayVars == <<relayPc, relayReq, relayResp>>

RelayInit ==
  /\ relayPc = "idle"
  /\ relayReq = None
  /\ relayResp = None

\* a request reaches the edge function
RelayReceive ==
  /\ relayPc = "idle"
  /\ \E req \in Requests : relayReq' = req
  /\ relayPc' = "serving"
  /\ relayResp' = None

\* the handler runs from the first line to the returned Response
RelayHandle ==
  /\ relayPc = "serving"
  /\ relayResp' = RelayServe(relayReq)
  /\ relayPc' = "responded"
  /\ UNCHANGED relayReq

\* the isolate is free for the next request
RelayDone ==
  /\ relayPc = "responded"
  /\ relayPc' = "idle"
  /\ relayReq' = None
  /\ relayResp' = None

(***************************************************************************)
(* ---------------- 1:1 Call Controller (VideoCall, AudioCall) ----------  *)
(* One device's controller; the remote party and the browser are the       *)
(* environment.  AudioCall (part_017:182-516) is the same code without the *)
(* video track, so one model stands for both.                              *)
(***************************************************************************)
Me == "me"                 \* currentUserId
Peer == "peer"             \* otherUserId
Stranger == "stranger"     \* any other member of the channel

MaxOpens == 1              \* opens of the controller on this device
MaxDeliver == 2            \* broadcasts delivered to one open of the controller
MaxCand == 1               \* local ICE candidates the browser reports per open

MessageTypes == {"offer", "answer", "ice-candidate", "end-call"}

\* payloads the channel can deliver to the broadcast callback
Envelopes == [from : {Peer, Stranger}, to : {None, Me, Stranger}, type : MessageTypes]

\* the state values one render of the component closes over
RenderOf(ls, pcs, st) == [localStream |-> ls, peerConnection |-> pcs, callStatus |-> st]

\* useState initial values (part_013:19-24)
\* null, for a stream, a connection or a channel (ids are 1, 2, ...)
NoId == 0

FirstRender == RenderOf(NoId, NoId, "connecting")

NoneSent == [t \in (MessageTypes \cup {"offer"}) |-> 0]

Last(ev, type, flag) == [ev |-> ev, type |-> type, flag |-> flag]

VARIABLES
  opens,          \* how many times the controller has been opened
  mounted,        \* the component is mounted with isOpen = true
  isInitiator,    \* prop of the current open
  initPc,         \* position of initializeCall: idle, media, media2,
                  \* subscribing, delay, setLocal, done, aborted
  localStream,    \* React state
  peerConnection, \* React state
  callStatus,     \* React state
  uiRender,       \* state values of the last committed render (buttons)
  effRender,      \* state values of the render that ran the [isOpen] effect
  channelRef,     \* channelRef.current
  callTimeoutRef, \* the 45 s timeout is scheduled
  callTimerRef,   \* the 1 s duration interval is scheduled
  stream,         \* initializeCall's local `stream`
  pc,             \* initializeCall's local `pc`
  pcSig,          \* pc.signalingState
  pcLocal,        \* pc.localDescription
  pcRemote,       \* pc.remoteDescription
  liveStreams,    \* streams whose tracks were acquired and not stopped
  openPcs,        \* RTCPeerConnections created and not closed
  joinedChans,    \* realtime channels subscribed and not removed
  acquired,       \* successful getUserMedia calls of the current open
  delivered,      \* broadcasts delivered to the current open
  iceSent,        \* local candidates reported to the current open
  sent,           \* sendSignalingMessage calls of the current open, by type
  lastToast,      \* the last toast shown
  last,           \* the last step taken (what happened, on what)
  isMuted,        \* React state
  audioEnabled    \* track.enabled of the local stream's audio track

callVars == <<opens, mounted, isInitiator, initPc, localStream, peerConnection,
              callStatus, uiRender, effRender, channelRef, callTimeoutRef,
              callTimerRef, stream, pc, pcSig, pcLocal, pcRemote, liveStreams,
              openPcs, joinedChans, acquired, delivered, iceSent, sent,
              lastToast, last, isMuted, audioEnabled>>

muteVars == <<isMuted, audioEnabled>>

CallInit ==
  /\ opens = 0
  /\ mounted = FALSE
  /\ isInitiator = FALSE
  /\ initPc = "idle"
  /\ localStream = NoId
  /\ peerConnection = NoId
  /\ callStatus = "connecting"
  /\ uiRender = FirstRender
  /\ effRender = FirstRender
  /\ channelRef = NoId
  /\ callTimeoutRef = FALSE
  /\ callTimerRef = FALSE
  /\ stream = NoId
  /\ pc = NoId
  /\ pcSig = None
  /\ pcLocal = None
  /\ pcRemote = None
  /\ liveStreams = {}
  /\ openPcs = {}
  /\ joinedChans = {}
  /\ acquired = 0
  /\ delivered = 0
  /\ iceSent = 0
  /\ sent = NoneSent
  /\ lastToast = None
  /\ last = Last("init", None, FALSE)
  /\ isMuted = FALSE
  /\ audioEnabled = TRUE

\* Messenger sets activeCall: the component mounts with isOpen = true, the
\* [isOpen] effect calls initializeCall (which awaits getUserMedia) and the
\* timeout effect schedules the 45 s timer for an initiator.
Open ==
  /\ ~mounted
  /\ initPc \in {"idle", "done", "aborted"}
  /\ opens < MaxOpens
  /\ opens' = opens + 1
  /\ mounted' = TRUE
  /\ \E i \in BOOLEAN : isInitiator' = i /\ callTimeoutRef' = i
  /\ initPc' = "media"
  /\ localStream' = NoId
  /\ peerConnection' = NoId
  /\ callStatus' = "connecting"
  /\ isMuted' = FALSE
  /\ audioEnabled' = TRUE
  /\ uiRender' = FirstRender
  /\ effRender' = FirstRender
  /\ channelRef' = NoId
  /\ callTimerRef' = FALSE
  /\ stream' = NoId
  /\ pc' = NoId
  /\ pcSig' = None
  /\ pcLocal' = None
  /\ pcRemote' = None
  /\ acquired' = 0
  /\ delivered' = 0
  /\ iceSent' = 0
  /\ sent' = NoneSent
  /\ last' = Last("open", None, FALSE)
  /\ UNCHANGED <<liveStreams, openPcs, joinedChans, lastToast>>

\* the streams cleanup() of render r stops, the connections it closes
StoppedBy(r) == {r.localStream} \ {NoId}
ClosedBy(r) == {r.peerConnection} \ {NoId}

\* cleanup() as called by a function of render r, followed by the unmount
\* (onClose() or the parent), whose effect cleanup calls cleanup() of the
\* render that ran the effect.  setState of an unmounted component is a no-op.
CleanupAndClose(r, setsEnded) ==
  /\ liveStreams' = liveStreams \ (StoppedBy(r) \cup StoppedBy(effRender))
  /\ openPcs' = openPcs \ (ClosedBy(r) \cup ClosedBy(effRender))
  /\ pcSig' = IF pc \in (ClosedBy(r) \cup ClosedBy(effRender)) THEN "closed" ELSE pcSig
  /\ joinedChans' = joinedChans \ {channelRef}
  /\ channelRef' = NoId
  /\ callTimeoutRef' = FALSE
  /\ callTimerRef' = FALSE
  /\ IF mounted /\ setsEnded
       THEN localStream' = NoId /\ peerConnection' = NoId /\ callStatus' = "ended"
       ELSE UNCHANGED <<localStream, peerConnection, callStatus>>
  /\ mounted' = FALSE

HandleEndCallAlwaysSends(r) ==
  /\ sent' = [sent EXCEPT !["end-call"] = @ + 1]
  /\ CleanupAndClose(r, TRUE)

\* handleEndCall of render r: end-call is sent if channelRef.current is set,
\* then cleanup() and onClose()
HandleEndCall(r) ==
  /\ sent' = IF channelRef # NoId THEN [sent EXCEPT !["end-call"] = @ + 1] ELSE sent
  /\ CleanupAndClose(r, TRUE)

\* the catch block of initializeCall: toast and onClose()
AbortInit ==
  /\ initPc' = "aborted"
  /\ lastToast' = "media-error"
  /\ CleanupAndClose(effRender, FALSE)
  /\ UNCHANGED sent

\* getUserMedia resolves: setLocalStream, new RTCPeerConnection,
\* setPeerConnection, handlers installed, subscribeToSignaling awaited
MediaGranted ==
  /\ initPc \in {"media", "media2"}
  /\ initPc' = "subscribing"
  /\ stream' = opens
  /\ pc' = opens
  /\ liveStreams' = liveStreams \cup {opens}
  /\ openPcs' = openPcs \cup {opens}
  /\ acquired' = acquired + 1
  /\ pcSig' = "stable"
  /\ IF mounted
       THEN localStream' = opens /\ peerConnection' = opens
       ELSE UNCHANGED <<localStream, peerConnection>>
  /\ last' = Last("media", None, mounted)
  /\ UNCHANGED <<opens, mounted, isInitiator, callStatus, uiRender, effRender,
                 channelRef, callTimeoutRef, callTimerRef, pcLocal, pcRemote,
                 joinedChans, delivered, iceSent, sent, lastToast>>

FallsBackAlways(attempt) == TRUE

\* only the getUserMedia with the rich constraints sits in a try whose
\* catch asks again, with the basic constraints
FallsBack(attempt) == attempt = "media"

\* getUserMedia rejects: the rich constraints fall back to the basic ones
\* once, the basic ones end in the catch block
MediaDenied ==
  /\ initPc \in {"media", "media2"}
  /\ last' = Last("media-denied", initPc, mounted)
  /\ IF FallsBack(initPc)
       THEN /\ initPc' = "media2"
            /\ UNCHANGED <<mounted, localStream, peerConnection, callStatus,
                           channelRef, callTimeoutRef, callTimerRef, pcSig,
                           liveStreams, openPcs, joinedChans, sent, lastToast>>
       ELSE AbortInit
  /\ UNCHANGED <<opens, isInitiator, uiRender, effRender, stream, pc, pcLocal,
                 pcRemote, acquired, delivered, iceSent>>

AfterSubscribeAlwaysOffers(initiator) == "delay"

\* `if (isInitiator)` after `await subscribeToSignaling(pc)`: only the
\* initiator goes on to the settle delay and the offer
AfterSubscribe(initiator) == IF initiator THEN "delay" ELSE "done"

\* the subscribe callback reports SUBSCRIBED: channelRef.current = channel
SubscribeOk ==
  /\ initPc = "subscribing"
  /\ channelRef' = opens
  /\ joinedChans' = joinedChans \cup {opens}
  /\ initPc' = AfterSubscribe(isInitiator)
  /\ last' = Last("subscribed", None, mounted)
  /\ UNCHANGED <<opens, mounted, isInitiator, localStream, peerConnection,
                 callStatus, uiRender, effRender, callTimeoutRef, callTimerRef,
                 stream, pc, pcSig, pcLocal, pcRemote, liveStreams, openPcs,
                 acquired, delivered, iceSent, sent, lastToast>>

\* the subscribe callback reports CHANNEL_ERROR or TIMED_OUT: reject
SubscribeFail ==
  /\ initPc = "subscribing"
  /\ last' = Last("subscribe-failed", None, mounted)
  /\ AbortInit
  /\ UNCHANGED <<opens, isInitiator, uiRender, effRender, stream, pc, pcLocal,
                 pcRemote, acquired, delivered, iceSent>>

\* initiator, after the 500 ms settle delay: createOffer (throws on a
\* closed connection)
InitCreateOffer ==
  /\ initPc = "delay"
  /\ last' = Last("create-offer", None, pcSig = "closed")
  /\ IF pcSig = "closed"
       THEN AbortInit
       ELSE /\ initPc' = "setLocal"
            /\ UNCHANGED <<mounted, localStream, peerConnection, callStatus,
                           channelRef, callTimeoutRef, callTimerRef, pcSig,
                           liveStreams, openPcs, joinedChans, sent, lastToast>>
  /\ UNCHANGED <<opens, isInitiator, uiRender, effRender, stream, pc, pcLocal,
                 pcRemote, acquired, delivered, iceSent>>

\* setLocalDescription(offer) needs signalingState stable; then the offer
\* is handed to sendSignalingMessage
InitSendOffer ==
  /\ initPc = "setLocal"
  /\ last' = Last("send-offer", None, pcSig # "stable")
  /\ IF pcSig # "stable"
       THEN /\ AbortInit
            /\ UNCHANGED pcLocal
       ELSE /\ initPc' = "done"
            /\ pcSig' = "have-local-offer"
            /\ pcLocal' = "offer"
            /\ sent' = [sent EXCEPT !["offer"] = @ + 1]
            /\ UNCHANGED <<mounted, localStream, peerConnection, callStatus,
                           channelRef, callTimeoutRef, callTimerRef,
                           liveStreams, openPcs, joinedChans, lastToast>>
  /\ UNCHANGED <<opens, isInitiator, uiRender, effRender, stream, pc,
                 pcRemote, acquired, delivered, iceSent>>

\* line 309: an answer is applied only in have-local-offer
AnswerAppliesAlways(sig) == TRUE

AnswerApplies(sig) == sig = "have-local-offer"

CandidateAppliesAlways(remote) == TRUE

\* line 316: a candidate is added only once a remote description exists
CandidateApplies(remote) == remote # None

\* lines 274-284: addressed to someone else, or not from the expected peer
Filtered(env) ==
  \/ env.to # None /\ env.to # Me
  \/ env.from # Peer

\* The broadcast callback of subscribeToSignaling.  It was created by the
\* initializeCall of the render that ran the [isOpen] effect, so the
\* handleEndCall it calls is that render's.  An exception of a WebRTC call
\* is caught and logged (flag = TRUE).
Deliver(env) ==
  /\ opens \in joinedChans
  /\ delivered < MaxDeliver
  /\ delivered' = delivered + 1
  /\ UNCHANGED <<opens, isInitiator, initPc, uiRender, effRender, stream, pc,
                 acquired, iceSent, lastToast>>
  /\ IF Filtered(env)
       THEN /\ last' = Last("deliver", "filtered", FALSE)
            /\ UNCHANGED <<mounted, localStream, peerConnection, callStatus,
                           channelRef, callTimeoutRef, callTimerRef, pcSig,
                           pcLocal, pcRemote, liveStreams, openPcs,
                           joinedChans, sent>>
     ELSE IF env.type = "offer"
       THEN \* setRemoteDescription(offer) (rolls a pending local offer
            \* back), createAnswer, setLocalDescription, send the answer
            /\ last' = Last("deliver", "offer", pcSig = "closed")
            /\ IF pcSig = "closed"
                 THEN UNCHANGED <<pcSig, pcLocal, pcRemote, sent>>
                 ELSE /\ pcRemote' = "offer"
                      /\ pcLocal' = "answer"
                      /\ pcSig' = "stable"
                      /\ sent' = [sent EXCEPT !["answer"] = @ + 1]
            /\ UNCHANGED <<mounted, localStream, peerConnection, callStatus,
                           channelRef, callTimeoutRef, callTimerRef,
                           liveStreams, openPcs, joinedChans>>
     ELSE IF env.type = "answer"
       THEN /\ IF AnswerApplies(pcSig)
                 THEN IF pcSig = "have-local-offer"
                        THEN /\ pcRemote' = "answer"
                             /\ pcSig' = "stable"
                             /\ last' = Last("deliver", "answer", FALSE)
                        ELSE \* InvalidStateError, caught
                             /\ last' = Last("deliver", "answer", TRUE)
                             /\ UNCHANGED <<pcSig, pcRemote>>
                 ELSE /\ last' = Last("deliver", "answer", FALSE)
                      /\ UNCHANGED <<pcSig, pcRemote>>
            /\ UNCHANGED <<mounted, localStream, peerConnection, callStatus,
                           channelRef, callTimeoutRef, callTimerRef, pcLocal,
                           liveStreams, openPcs, joinedChans, sent>>
     ELSE IF env.type = "ice-candidate"
       THEN /\ last' = Last("deliver", IF CandidateApplies(pcRemote) THEN "ice-added" ELSE "ice-dropped",
                            CandidateApplies(pcRemote) /\ pcSig = "closed")
            /\ UNCHANGED <<mounted, localStream, peerConnection, callStatus,
                           channelRef, callTimeoutRef, callTimerRef, pcSig,
                           pcLocal, pcRemote, liveStreams, openPcs,
                           joinedChans, sent>>
     ELSE \* end-call
            /\ last' = Last("deliver", "end-call", channelRef # NoId)
            /\ HandleEndCall(effRender)
            /\ UNCHANGED <<pcLocal, pcRemote>>

SetCallStatusUnmounted(st) == st

\* setCallStatus(st): React drops the update of an unmounted component
SetCallStatus(st) == IF mounted THEN st ELSE callStatus

\* pc.ontrack: a remote track arrives on a negotiated connection
PcTrack ==
  /\ pc \in openPcs
  /\ pcSig = "stable" /\ pcLocal # None /\ pcRemote # None
  /\ callStatus' = SetCallStatus("connected")
  /\ lastToast' = "connected"
  /\ last' = Last("track", None, mounted)
  /\ UNCHANGED <<opens, mounted, isInitiator, initPc, localStream,
                 peerConnection, uiRender, effRender, channelRef,
                 callTimeoutRef, callTimerRef, stream, pc, pcSig, pcLocal,
                 pcRemote, liveStreams, openPcs, joinedChans, acquired,
                 delivered, iceSent, sent>>

\* pc.oniceconnectionstatechange on the connection of the current open
PcIceState(state) ==
  /\ pc \in openPcs
  /\ pcLocal # None /\ pcRemote # None
  /\ UNCHANGED <<opens, isInitiator, initPc, uiRender, effRender, stream, pc,
                 pcLocal, pcRemote, acquired, delivered, iceSent>>
  /\ IF state = "connected"
       THEN /\ callStatus' = SetCallStatus("connected")
            /\ last' = Last("ice", state, mounted)
            /\ UNCHANGED <<mounted, localStream, peerConnection, channelRef,
                           callTimeoutRef, callTimerRef, pcSig, liveStreams,
                           openPcs, joinedChans, sent, lastToast>>
       ELSE /\ lastToast' = "connection-lost"
            /\ last' = Last("ice", state, channelRef # NoId)
            /\ HandleEndCall(effRender)

\* pc.onicecandidate: a local candidate is sent to the peer
PcIceCandidate ==
  /\ pc \in openPcs
  /\ pcLocal # None
  /\ iceSent < MaxCand
  /\ iceSent' = iceSent + 1
  /\ sent' = [sent EXCEPT !["ice-candidate"] = @ + 1]
  /\ last' = Last("candidate", None, mounted)
  /\ UNCHANGED <<opens, mounted, isInitiator, initPc, localStream,
                 peerConnection, callStatus, uiRender, effRender, channelRef,
                 callTimeoutRef, callTimerRef, stream, pc, pcSig, pcLocal,
                 pcRemote, liveStreams, openPcs, joinedChans, acquired,
                 delivered, lastToast>>

\* React commits a render with the current state; the effects whose
\* dependency callStatus changed are cleaned up and run again
Render ==
  /\ mounted
  /\ uiRender # RenderOf(localStream, peerConnection, callStatus)
  /\ uiRender' = RenderOf(localStream, peerConnection, callStatus)
  /\ IF callStatus # uiRender.callStatus
       THEN /\ callTimeoutRef' = (isInitiator /\ callStatus = "connecting")
            /\ callTimerRef' = (callStatus = "connected")
       ELSE UNCHANGED <<callTimeoutRef, callTimerRef>>
  /\ last' = Last("render", None, FALSE)
  /\ UNCHANGED <<opens, mounted, isInitiator, initPc, localStream,
                 peerConnection, callStatus, effRender, channelRef, stream,
                 pc, pcSig, pcLocal, pcRemote, liveStreams, openPcs,
                 joinedChans, acquired, delivered, iceSent, sent, lastToast>>

\* the hang-up button or closing the dialog: handleEndCall of the last
\* committed render
HangUp ==
  /\ mounted
  /\ last' = Last("hang-up", None, channelRef # NoId)
  /\ HandleEndCall(uiRender)
  /\ UNCHANGED <<opens, isInitiator, initPc, uiRender, effRender, stream, pc,
                 pcLocal, pcRemote, acquired, delivered, iceSent, lastToast>>

\* what toggleMute reads and writes: the localStream of the render the
\* button belongs to, the enabled flag of its audio track, isMuted
MuteState ==
  [localStream |-> uiRender.localStream, enabled |-> audioEnabled, isMuted |-> isMuted]

ToggledSetsMuted(st) ==
  IF st.localStream # NoId
    THEN [st EXCEPT !.enabled = ~st.enabled, !.isMuted = TRUE]
    ELSE st

\* toggleMute followed by the re-render its setIsMuted causes
Toggled(st) ==
  IF st.localStream # NoId
    THEN [st EXCEPT !.enabled = ~st.enabled, !.isMuted = ~st.isMuted]
    ELSE st

\* the user presses the microphone button
ToggleMute ==
  /\ mounted
  /\ audioEnabled' = Toggled(MuteState).enabled
  /\ isMuted' = Toggled(MuteState).isMuted
  /\ last' = Last("mute", None, uiRender.localStream # NoId)
  /\ UNCHANGED <<opens, mounted, isInitiator, initPc, localStream,
                 peerConnection, callStatus, uiRender, effRender, channelRef,
                 callTimeoutRef, callTimerRef, stream, pc, pcSig, pcLocal,
                 pcRemote, liveStreams, openPcs, joinedChans, acquired,
                 delivered, iceSent, sent, lastToast>>

\* the parent unmounts the component (Messenger itself unmounts): only
\* the effect cleanups run
Unmount ==
  /\ mounted
  /\ last' = Last("unmount", None, channelRef # NoId)
  /\ CleanupAndClose(effRender, FALSE)
  /\ UNCHANGED <<opens, isInitiator, initPc, uiRender, effRender, stream, pc,
                 pcLocal, pcRemote, acquired, delivered, iceSent, sent,
                 lastToast>>

\* the 45 s timer fires; its callback belongs to the render that scheduled
\* it and tests that render's callStatus
Timeout ==
  /\ callTimeoutRef
  /\ effRender.callStatus = "connecting"
  /\ lastToast' = "not-answered"
  /\ last' = Last("timeout", callStatus, channelRef # NoId)
  /\ HandleEndCall(effRender)
  /\ UNCHANGED <<opens, isInitiator, initPc, uiRender, effRender, stream, pc,
                 pcLocal, pcRemote, acquired, delivered, iceSent>>

(***************************************************************************)
(* ------------- Group Call Controller (GroupVideoCall) ------------------ *)
(* Three devices in one room.  GroupAudioCall (part_014:27-370) runs the   *)
(* same protocol.  The broadcast callback of subscribeToRoom is created by *)
(* the initializeCall of the render that ran the [isOpen] effect: the      *)
(* `participants` and `localStream` it reads are the values of that        *)
(* render, i.e. the initial roster (entries without peerConnection) and    *)
(* null; setParticipants(prev => ...) receives the current roster.         *)
(* Buttons are handled after React committed the pending render.           *)
(***************************************************************************)
GUsers == {"A", "B", "C"}

\* disturbances of the room: a controller that closes, an envelope that
\* another subscriber of the channel publishes
MaxDisturbances == 1

GMessageTypes ==
  {"user-joined", "offer", "answer", "ice-candidate", "user-left"}

GEnvelopes == [from : GUsers, to : {None} \cup GUsers, type : GMessageTypes]

RECURSIVE SeqOf(_)
\* a list holding the elements of S once each
SeqOf(S) ==
  IF S = {} THEN <<>>
  ELSE LET x == CHOOSE y \in S : TRUE IN <<x>> \o SeqOf(S \ {x})

\* interface Participant: userId, optional peerConnection, optional stream
Participant(userId) == [userId |-> userId, pc |-> NoId, stream |-> FALSE]

\* useState(initialParticipants.map(...)) (lines 926-928)
InitialRoster(S) == [i \in 1..Cardinality(S) |-> Participant(SeqOf(S)[i])]

VARIABLES
  gPc,          \* position of initializeCall, per user
  gMounted,     \* the component is mounted with isOpen = true
  gInitial,     \* user ids of the initialParticipants prop
  gLoopLeft,    \* roster entries the for-loop of initializeCall has ahead
  gLocalStream, \* React state localStream (the stream is held)
  gStreamLive,  \* the tracks of the acquired stream are live
  gRoster,      \* React state participants
  gChannelRef,  \* channelRef.current is set
  gJoined,      \* the room channel is subscribed and not removed
  gPcs,         \* RTCPeerConnections the controller created, in order
  gInbox,       \* broadcasts the channel has yet to hand to the callback
  gSent,        \* <<type, to>> of the messages the controller sent
  gLast,        \* the broadcast the callback handled in the last step, if any
  gErr,         \* a callback caught an exception (console.error)
  injected      \* envelopes published by other channel members

GNoEvent == [by |-> None, from |-> None, to |-> None, type |-> None]

groupVars == <<gPc, gMounted, gInitial, gLoopLeft, gLocalStream, gStreamLive,
               gRoster, gChannelRef, gJoined, gPcs, gInbox, gSent, gLast,
               gErr, injected>>

GroupInit ==
  /\ gPc = [u \in GUsers |-> "idle"]
  /\ gMounted = [u \in GUsers |-> FALSE]
  /\ gInitial = [u \in GUsers |-> {}]
  /\ gLoopLeft = [u \in GUsers |-> {}]
  /\ gLocalStream = [u \in GUsers |-> FALSE]
  /\ gStreamLive = [u \in GUsers |-> FALSE]
  /\ gRoster = [u \in GUsers |-> <<>>]
  /\ gChannelRef = [u \in GUsers |-> FALSE]
  /\ gJoined = [u \in GUsers |-> FALSE]
  /\ gPcs = [u \in GUsers |-> <<>>]
  /\ gInbox = [u \in GUsers |-> <<>>]
  /\ gSent = [u \in GUsers |-> {}]
  /\ gLast = GNoEvent
  /\ gErr = FALSE
  /\ injected = 0

\* `localStream` of the render committed last
HandlerLocalStreamCurrent(u) == gLocalStream[u]

\* `localStream` as the broadcast callback reads it: the state of the
\* render that ran the effect, useState(null)
HandlerLocalStream(u) == FALSE

\* participants.find(p => p.userId === from) in the callback: the entry of
\* the initial roster, which has no peerConnection
HandlerKnows(u, from) == from \in gInitial[u]

HandlerPcOf(u, from) == NoId

\* the channel hands env to every other subscriber (broadcast self: false);
\* a subscriber it is not addressed to returns at the first line of its
\* callback (line 1112), so it is not queued for it
Recipients(sender, env) ==
  {v \in GUsers : v # sender /\ gJoined[v] /\ (env.to = None \/ env.to = v)}

Queued(inbox, sender, msgs) ==
  [v \in GUsers |->
     inbox[v] \o SelectSeq(msgs, LAMBDA e : v \in Recipients(sender, e))]

\* sendSignalingMessage: nothing is sent while channelRef.current is null
Outgoing(u, hasChannel, msgs) == IF hasChannel THEN msgs ELSE <<>>

SentBy(msgs) == {<<msgs[i].type, msgs[i].to>> : i \in DOMAIN msgs}

Env(from, to, type) == [from |-> from, to |-> to, type |-> type]

\* createPeerConnection: the new connection, with the offer set locally
\* when this side initiates
NewPc(target, initiator) ==
  [target |-> target, open |-> TRUE, remote |-> None,
   sig |-> IF initiator THEN "have-local-offer" ELSE "stable",
   local |-> IF initiator THEN "offer" ELSE None]

\* setParticipants(prev => prev.map(...)) of createPeerConnection
WithPc(roster, target, id) ==
  [i \in DOMAIN roster |->
     IF roster[i].userId = target THEN [roster[i] EXCEPT !.pc = id] ELSE roster[i]]

\* cleanup() reading the roster it closes over, then the unmount; the
\* effect cleanup itself reads the initial roster and a null localStream
ClosePcs(pcs, ids) ==
  [i \in DOMAIN pcs |-> IF i \in ids THEN [pcs[i] EXCEPT !.open = FALSE, !.sig = "closed"] ELSE pcs[i]]

RosterPcs(roster) == {roster[i].pc : i \in DOMAIN roster} \ {NoId}

GCleanupAndClose(u, stopsStream, closes) ==
  /\ gStreamLive' = [gStreamLive EXCEPT ![u] = @ /\ ~stopsStream]
  /\ gPcs' = [gPcs EXCEPT ![u] = ClosePcs(@, closes)]
  /\ gJoined' = [gJoined EXCEPT ![u] = @ /\ ~gChannelRef[u]]
  /\ gChannelRef' = [gChannelRef EXCEPT ![u] = FALSE]
  /\ gMounted' = [gMounted EXCEPT ![u] = FALSE]

\* the catch block of initializeCall: toast, onClose(); the unmount runs
\* the effect cleanup
GAbort(u) ==
  /\ gPc' = [gPc EXCEPT ![u] = "aborted"]
  /\ GCleanupAndClose(u, FALSE, {})
  /\ gInbox' = [gInbox EXCEPT ![u] = IF gChannelRef[u] THEN <<>> ELSE @]

\* controllers that were opened and have closed
Closed == {v \in GUsers : gPc[v] # "idle" /\ ~gMounted[v]}

Disturbances == Cardinality(Closed) + injected

MayClose == Disturbances < MaxDisturbances

\* the rosters a parent seeds the component with: nobody, or every other
\* member of the room
InitialParticipants(u) == {{}, GUsers \ {u}}

\* A, B, C name the members in the order in which they open the room
OpensBefore(u) == {v \in GUsers : <<v, u>> \in {<<"A", "B">>, <<"A", "C">>, <<"B", "C">>}}

Initializing == {v \in GUsers : gPc[v] \notin {"idle", "done", "aborted"}}

\* the component mounts; the members join one after the other, each when
\* no initializeCall of an earlier one is still running
GOpen(u, initial) ==
  /\ gPc[u] = "idle"
  /\ Initializing = {}
  /\ \A v \in OpensBefore(u) : gPc[v] # "idle"
  /\ gPc' = [gPc EXCEPT ![u] = "media"]
  /\ gMounted' = [gMounted EXCEPT ![u] = TRUE]
  /\ gInitial' = [gInitial EXCEPT ![u] = initial]
  /\ gLoopLeft' = [gLoopLeft EXCEPT ![u] = initial \ {u}]
  /\ gRoster' = [gRoster EXCEPT ![u] = InitialRoster(initial)]
  /\ UNCHANGED <<gLocalStream, gStreamLive, gChannelRef, gJoined, gPcs,
                 gInbox, gSent, gErr, injected>>
  /\ gLast' = GNoEvent

\* getUserMedia resolves (setLocalStream, subscribeToRoom) or rejects
GMedia(u, granted) ==
  /\ gPc[u] = "media"
  /\ granted \/ MayClose \/ ~gMounted[u]
  /\ IF granted
       THEN /\ gPc' = [gPc EXCEPT ![u] = "subscribing"]
            /\ gStreamLive' = [gStreamLive EXCEPT ![u] = TRUE]
            /\ gLocalStream' = [gLocalStream EXCEPT ![u] = gMounted[u]]
            /\ UNCHANGED <<gMounted, gChannelRef, gJoined, gPcs, gInbox>>
       ELSE /\ GAbort(u)
            /\ UNCHANGED gLocalStream
  /\ UNCHANGED <<gInitial, gLoopLeft, gRoster, gSent, gErr, injected>>
  /\ gLast' = GNoEvent

\* the subscribe callback reports SUBSCRIBED, or CHANNEL_ERROR / TIMED_OUT
GSubscribed(u, ok) ==
  /\ gPc[u] = "subscribing"
  /\ ok \/ MayClose \/ ~gMounted[u]
  /\ IF ok
       THEN /\ gPc' = [gPc EXCEPT ![u] = "announce"]
            /\ gChannelRef' = [gChannelRef EXCEPT ![u] = TRUE]
            /\ gJoined' = [gJoined EXCEPT ![u] = TRUE]
            /\ UNCHANGED <<gMounted, gStreamLive, gPcs, gInbox>>
       ELSE GAbort(u)
  /\ UNCHANGED <<gInitial, gLoopLeft, gLocalStream, gRoster, gSent,
                 gErr, injected>>
  /\ gLast' = GNoEvent

\* user-joined is broadcast, then the loop over the roster starts
GAnnounce(u) ==
  /\ gPc[u] = "announce"
  /\ LET out == Outgoing(u, gChannelRef[u], <<Env(u, None, "user-joined")>>) IN
       /\ gInbox' = Queued(gInbox, u, out)
       /\ gSent' = [gSent EXCEPT ![u] = @ \cup SentBy(out)]
  /\ gPc' = [gPc EXCEPT ![u] = IF gLoopLeft[u] = {} THEN "done" ELSE "loop"]
  /\ UNCHANGED <<gMounted, gInitial, gLoopLeft, gLocalStream, gStreamLive,
                 gRoster, gChannelRef, gJoined, gPcs, gErr, injected>>
  /\ gLast' = GNoEvent

\* one iteration of the loop: createPeerConnection(target, true, stream)
GConnect(u, target) ==
  /\ gPc[u] = "loop"
  /\ target \in gLoopLeft[u]
  /\ LET out == Outgoing(u, gChannelRef[u], <<Env(u, target, "offer")>>) IN
       /\ gInbox' = Queued(gInbox, u, out)
       /\ gSent' = [gSent EXCEPT ![u] = @ \cup SentBy(out)]
  /\ gPcs' = [gPcs EXCEPT ![u] = Append(@, NewPc(target, TRUE))]
  /\ gRoster' = [gRoster EXCEPT ![u] =
                   IF gMounted[u] THEN WithPc(@, target, Len(gPcs[u]) + 1) ELSE @]
  /\ gLoopLeft' = [gLoopLeft EXCEPT ![u] = @ \ {target}]
  /\ gPc' = [gPc EXCEPT ![u] = IF gLoopLeft[u] = {target} THEN "done" ELSE "loop"]
  /\ UNCHANGED <<gMounted, gInitial, gLocalStream, gStreamLive, gChannelRef,
                 gJoined, gErr, injected>>
  /\ gLast' = GNoEvent

\* index of the first roster entry of userId, 0 if there is none
RECURSIVE FindFrom(_, _, _)
FindFrom(roster, userId, i) ==
  IF i > Len(roster) THEN 0
  ELSE IF roster[i].userId = userId THEN i
  ELSE FindFrom(roster, userId, i + 1)

Find(roster, userId) == FindFrom(roster, userId, 1)

\* handleParticipantLeft's updater: the first entry of userId has its
\* connection closed, every entry of userId is filtered out
LeftPcs(roster, userId) ==
  IF Find(roster, userId) = 0 THEN {}
  ELSE {roster[Find(roster, userId)].pc} \ {NoId}

WithoutUser(roster, userId) == SelectSeq(roster, LAMBDA p : p.userId # userId)

\* What the broadcast callback does with env: the roster and connections
\* it leaves, the messages it sends, whether it caught an exception.
Handle(u, env) ==
  LET from == env.from
      roster == gRoster[u]
      pcs == gPcs[u]
      same == [roster |-> roster, pcs |-> pcs, out |-> <<>>, err |-> FALSE]
      newId == Len(pcs) + 1
  IN
  IF env.to # None /\ env.to # u THEN same
  ELSE IF env.type = "user-joined" THEN
    IF from # u /\ ~HandlerKnows(u, from)
      THEN LET added == IF gMounted[u] THEN Append(roster, Participant(from)) ELSE roster IN
           IF HandlerLocalStream(u)
             THEN [roster |-> IF gMounted[u] THEN WithPc(added, from, newId) ELSE added,
                   pcs |-> Append(pcs, NewPc(from, TRUE)),
                   out |-> <<Env(u, from, "offer")>>, err |-> FALSE]
             ELSE [same EXCEPT !.roster = added]
      ELSE same
  ELSE IF env.type = "offer" THEN
    LET creates == HandlerPcOf(u, from) = NoId /\ HandlerLocalStream(u)
        id == IF creates THEN newId ELSE HandlerPcOf(u, from)
        pcs1 == IF creates THEN Append(pcs, NewPc(from, FALSE)) ELSE pcs
        roster1 == IF creates /\ gMounted[u] THEN WithPc(roster, from, id) ELSE roster
    IN IF id = NoId THEN same
       ELSE IF ~pcs1[id].open
         THEN [roster |-> roster1, pcs |-> pcs1, out |-> <<>>, err |-> TRUE]
         ELSE [roster |-> roster1,
               pcs |-> [pcs1 EXCEPT ![id] = [@ EXCEPT !.remote = "offer",
                                                     !.local = "answer",
                                                     !.sig = "stable"]],
               out |-> <<Env(u, from, "answer")>>, err |-> FALSE]
  ELSE IF env.type = "answer" THEN
    LET id == HandlerPcOf(u, from) IN
    IF id # NoId /\ pcs[id].sig = "have-local-offer"
      THEN [same EXCEPT !.pcs = [pcs EXCEPT ![id] = [@ EXCEPT !.remote = "answer",
                                                              !.sig = "stable"]]]
      ELSE same
  ELSE IF env.type = "ice-candidate" THEN
    LET id == HandlerPcOf(u, from) IN
    IF id # NoId /\ pcs[id].remote # None
      THEN [same EXCEPT !.err = ~pcs[id].open]
      ELSE same
  ELSE \* user-left
    IF gMounted[u]
      THEN [same EXCEPT !.roster = WithoutUser(roster, from),
                        !.pcs = ClosePcs(pcs, LeftPcs(roster, from))]
      ELSE same

\* the channel hands the next broadcast to the callback
GDeliver(u) ==
  /\ gJoined[u]
  /\ gInbox[u] # <<>>
  /\ LET env == Head(gInbox[u])
         res == Handle(u, env)
         out == Outgoing(u, gChannelRef[u], res.out)
     IN /\ gRoster' = [gRoster EXCEPT ![u] = res.roster]
        /\ gPcs' = [gPcs EXCEPT ![u] = res.pcs]
        /\ gInbox' = Queued([gInbox EXCEPT ![u] = Tail(@)], u, out)
        /\ gSent' = [gSent EXCEPT ![u] = @ \cup SentBy(out)]
        /\ gLast' = [by |-> u, from |-> env.from, to |-> env.to, type |-> env.type]
        /\ gErr' = (gErr \/ res.err)
  /\ UNCHANGED <<gPc, gMounted, gInitial, gLoopLeft, gLocalStream, gStreamLive,
                 gChannelRef, gJoined, injected>>

\* the hang-up button or closing the dialog: handleEndCall broadcasts
\* user-left, cleanup() stops the stream and closes the roster's
\* connections, onClose() unmounts
GHangUp(u) ==
  /\ gMounted[u]
  /\ MayClose
  /\ LET out == Outgoing(u, gChannelRef[u], <<Env(u, None, "user-left")>>) IN
       /\ gInbox' = Queued([gInbox EXCEPT ![u] = IF gChannelRef[u] THEN <<>> ELSE @], u, out)
       /\ gSent' = [gSent EXCEPT ![u] = @ \cup SentBy(out)]
  /\ GCleanupAndClose(u, gLocalStream[u], RosterPcs(gRoster[u]))
  /\ gLocalStream' = [gLocalStream EXCEPT ![u] = FALSE]
  /\ gRoster' = [gRoster EXCEPT ![u] = <<>>]
  /\ UNCHANGED <<gPc, gInitial, gLoopLeft, gErr, injected>>
  /\ gLast' = GNoEvent

\* the parent unmounts the component: the effect cleanup calls the
\* cleanup() of the render that ran the effect
GUnmount(u) ==
  /\ gMounted[u]
  /\ MayClose
  /\ GCleanupAndClose(u, HandlerLocalStream(u), RosterPcs(InitialRoster(gInitial[u])))
  /\ gInbox' = [gInbox EXCEPT ![u] = IF gChannelRef[u] THEN <<>> ELSE @]
  /\ UNCHANGED <<gPc, gInitial, gLoopLeft, gLocalStream, gRoster, gSent,
                 gErr, injected>>
  /\ gLast' = GNoEvent

\* The room channel is written by its subscribers directly: one of them
\* publishes an answer nobody asked for (a duplicate, or one for a
\* negotiation that is over).
Unsolicited ==
  {e \in GEnvelopes : e.type = "answer" /\ e.to \notin {None, e.from}}

GInject(env) ==
  /\ Disturbances < MaxDisturbances
  \* a broadcast no subscriber is to receive is dropped by the channel
  /\ Recipients("outsider", env) # {}
  /\ injected' = injected + 1
  /\ gInbox' = Queued(gInbox, "outsider", <<env>>)
  /\ UNCHANGED <<gPc, gMounted, gInitial, gLoopLeft, gLocalStream, gStreamLive,
                 gRoster, gChannelRef, gJoined, gPcs, gSent, gErr>>
  /\ gLast' = GNoEvent

(***************************************************************************)
(* ---------------------- Call Notification Layer ------------------------ *)
(* Messenger keeps one listener per signed-in user on a personal realtime  *)
(* channel; ChatWindow.handleStartCall rings the other user on it; the     *)
(* incoming-call banner accepts or declines.  Channel names are modelled   *)
(* as <<prefix, user id>>, so two names are equal exactly when the         *)
(* template strings of the source produce the same string.                 *)
(***************************************************************************)
MaxCalls == 2              \* calls started while the layer is observed

\* supabase.channel(`global-call-notifications-${currentUserId}`)
ListenerChannel(currentUserId) == <<"global-call-notifications", currentUserId>>

\* supabase.channel(`global-call-notifications-${otherUserId}`)
IncomingCallChannel(otherUserId) == <<"global-call-notifications", otherUserId>>

\* supabase.channel(`call-notifications-${incomingCall.callerId}`)
DeclineChannel(callerId) == <<"call-notifications", callerId>>

NoChannel == <<None, None>>

\* useState(null) of incomingCall and of activeCall.  The field `call` is
\* the number of the call in the order of the starts; the payload of the
\* source has no such field and no handler reads it.
NoIncoming == [chatId |-> None, callerId |-> None, callType |-> None, call |-> NoId]

NoCall == [chatId |-> None, otherUserId |-> None, callType |-> None, isInitiator |-> FALSE]

NoNotice == [chatId |-> None, otherUserId |-> None, callType |-> None, call |-> NoId]

NLast(ev, by, channel, peer, receivers) ==
  [ev |-> ev, by |-> by, channel |-> channel, peer |-> peer, receivers |-> receivers]

VARIABLES
  listening,     \* users whose Messenger has its listener subscribed
  incomingCall,  \* Messenger state incomingCall, per user
  activeCall,    \* Messenger state activeCall, per user
  notifying,     \* the call handleStartCall has yet to announce, per user
  openChannels,  \* <<user, channel>> of channels created and never removed
  nInbox,        \* events the personal channel has yet to hand to the listener
  started,       \* calls started so far
  declining,     \* the call whose handleDeclineCall is in flight, per user
  declined,      \* numbers of the calls a callee declined
  answered,      \* numbers of the calls a callee opened a controller for
  nLast          \* the step taken last

notifyVars == <<listening, incomingCall, activeCall, notifying, openChannels,
                nInbox, started, declining, declined, answered, nLast>>

NotifyInit ==
  /\ listening = {}
  /\ incomingCall = [u \in Users |-> NoIncoming]
  /\ activeCall = [u \in Users |-> NoCall]
  /\ notifying = [u \in Users |-> NoNotice]
  /\ openChannels = {}
  /\ nInbox = [u \in Users |-> <<>>]
  /\ started = 0
  /\ declining = [u \in Users |-> NoIncoming]
  /\ declined = {}
  /\ answered = {}
  /\ nLast = NLast("init", None, NoChannel, None, {})

\* the listeners a broadcast on channel reaches: the users whose personal
\* channel has that name (the sender's own channel object gets no echo)
Listeners(channel, by) == {u \in listening \ {by} : ListenerChannel(u) = channel}

Broadcast(inbox, channel, by, event, payload) ==
  [u \in Users |->
     IF u \in Listeners(channel, by)
       THEN Append(inbox[u], [event |-> event, payload |-> payload])
       ELSE inbox[u]]

\* the effect of Messenger subscribes the personal channel
NListen(u) ==
  /\ u \notin listening
  /\ listening' = listening \cup {u}
  /\ nLast' = NLast("listen", u, ListenerChannel(u), None, {})
  /\ UNCHANGED <<incomingCall, activeCall, notifying, openChannels, nInbox, started,
                 declining, declined, answered>>

\* handleStartCall up to its first await: onStartCall opens the caller's
\* controller as initiator
NStartCall(u, otherUserId, chatId, callType) ==
  /\ u \in listening
  /\ otherUserId # u
  /\ started < MaxCalls
  /\ notifying[u] = NoNotice
  /\ started' = started + 1
  /\ activeCall' = [activeCall EXCEPT ![u] =
       [chatId |-> chatId, otherUserId |-> otherUserId, callType |-> callType,
        isInitiator |-> TRUE]]
  /\ notifying' = [notifying EXCEPT ![u] =
       [chatId |-> chatId, otherUserId |-> otherUserId, callType |-> callType,
        call |-> started + 1]]
  /\ nLast' = NLast("start", u, NoChannel, otherUserId, {})
  /\ UNCHANGED <<listening, incomingCall, openChannels, nInbox, declining, declined,
                 answered>>

\* the rest of handleStartCall: subscribe the other user's personal
\* channel and broadcast incoming-call on it; the channel is kept
NNotify(u) ==
  /\ notifying[u] # NoNotice
  /\ LET n == notifying[u]
         channel == IncomingCallChannel(n.otherUserId)
     IN /\ nInbox' = Broadcast(nInbox, channel, u, "incoming-call",
                               [chatId |-> n.chatId, callerId |-> u, callType |-> n.callType,
                                call |-> n.call])
        /\ openChannels' = openChannels \cup {<<u, channel>>}
        /\ nLast' = NLast("notify", u, channel, n.otherUserId, Listeners(channel, u))
  /\ notifying' = [notifying EXCEPT ![u] = NoNotice]
  /\ UNCHANGED <<listening, incomingCall, activeCall, started, declining, declined,
                 answered>>

\* the listener's callbacks: incoming-call sets incomingCall (after the
\* profile lookup), call-declined clears it
NDeliver(u) ==
  /\ u \in listening
  /\ nInbox[u] # <<>>
  /\ LET e == Head(nInbox[u]) IN
       /\ incomingCall' = [incomingCall EXCEPT ![u] =
            IF e.event = "incoming-call" THEN e.payload ELSE NoIncoming]
       /\ nLast' = NLast(e.event, u, ListenerChannel(u), e.payload.callerId, {})
  /\ nInbox' = [nInbox EXCEPT ![u] = Tail(@)]
  /\ UNCHANGED <<listening, activeCall, notifying, openChannels, started, declining,
                 declined, answered>>

\* handleAcceptCall
NAccept(u) ==
  /\ incomingCall[u] # NoIncoming
  /\ activeCall' = [activeCall EXCEPT ![u] =
       [chatId |-> incomingCall[u].chatId, otherUserId |-> incomingCall[u].callerId,
        callType |-> incomingCall[u].callType, isInitiator |-> FALSE]]
  /\ incomingCall' = [incomingCall EXCEPT ![u] = NoIncoming]
  /\ answered' = answered \cup {incomingCall[u].call}
  /\ nLast' = NLast("accept", u, NoChannel, incomingCall[u].callerId, {})
  /\ UNCHANGED <<listening, notifying, openChannels, nInbox, started, declining,
                 declined>>

\* handleDeclineCall up to the awaited send: the decline button was
\* pressed, the channel is subscribed and call-declined is broadcast; the
\* banner with both buttons stays until the handler resumes
NDecline(u) ==
  /\ incomingCall[u] # NoIncoming
  /\ declining[u] = NoIncoming
  /\ LET callerId == incomingCall[u].callerId
         channel == DeclineChannel(callerId)
     IN /\ nInbox' = Broadcast(nInbox, channel, u, "call-declined",
                               [chatId |-> incomingCall[u].chatId, callerId |-> callerId,
                                callType |-> None, call |-> incomingCall[u].call])
        /\ nLast' = NLast("decline", u, channel, callerId, Listeners(channel, u))
  /\ declining' = [declining EXCEPT ![u] = incomingCall[u]]
  /\ declined' = declined \cup {incomingCall[u].call}
  /\ UNCHANGED <<listening, incomingCall, activeCall, notifying, openChannels, started,
                 answered>>

\* the rest of handleDeclineCall: the channel is removed and
\* setIncomingCall(null) clears whatever notification is shown
NDeclineDone(u) ==
  /\ declining[u] # NoIncoming
  /\ declining' = [declining EXCEPT ![u] = NoIncoming]
  /\ incomingCall' = [incomingCall EXCEPT ![u] = NoIncoming]
  /\ nLast' = NLast("declined", u, NoChannel, declining[u].callerId, {})
  /\ UNCHANGED <<listening, activeCall, notifying, openChannels, nInbox, started,
                 declined, answered>>

\* handleCloseCall, the onClose of the mounted controller
NCloseCall(u) ==
  /\ activeCall[u] # NoCall
  /\ activeCall' = [activeCall EXCEPT ![u] = NoCall]
  /\ nLast' = NLast("close", u, NoChannel, None, {})
  /\ UNCHANGED <<listening, incomingCall, notifying, openChannels, nInbox, started,
                 declining, declined, answered>>

----------------------------------------------------------------------------
\* Call history: the call_history table behind useCallHistory

CallHistoryStatus == {"completed", "missed", "declined", "no-answer"}

VARIABLE callHistory

historyVars == <<callHistory>>

HistoryInit == callHistory = {}

\* recordCall(entry): one row inserted into call_history. The hook returns
\* it, and no component takes it from the hook: Messenger reads
\* missedCallsCount only, VideoCall and AudioCall do not use the hook.
RecordCall(history, entry) == history \cup {entry}

----------------------------------------------------------------------------
(***************************************************************************)
(* ------------------------- 1:1 Call Session ----------------------------- *)
(* The two controllers of one 1:1 call and the signaling channel between   *)
(* them.  The caller's controller is mounted by handleStartCall, the       *)
(* callee's by handleAcceptCall.  A broadcast is handed to the channel     *)
(* objects that are subscribed when it is sent and is not stored.          *)
(***************************************************************************)
Parties == {"caller", "callee"}

Other(p) == IF p = "caller" THEN "callee" ELSE "caller"

VARIABLES
  sPc,          \* position of each party's initializeCall
  sSubscribed,  \* parties whose signaling channel is subscribed
  sInbox,       \* messages the channel has yet to hand to each party's callback
  sSig,         \* pc.signalingState of each party, None before the pc exists
  sRemote,      \* pc.remoteDescription is set, per party
  sStatus,      \* callStatus of each party
  sBanner,      \* the callee's incoming-call banner
  sHow,         \* what tore each party's controller down, None while it is up
  sLast         \* the step taken last

sessionVars == <<sPc, sSubscribed, sInbox, sSig, sRemote, sStatus, sBanner, sHow, sLast>>

SLast(ev, by, type, heard) ==
  [ev |-> ev, by |-> by, type |-> type, heard |-> heard]

SessionInit ==
  /\ sPc = [p \in Parties |-> "idle"]
  /\ sSubscribed = {}
  /\ sInbox = [p \in Parties |-> <<>>]
  /\ sSig = [p \in Parties |-> None]
  /\ sRemote = [p \in Parties |-> FALSE]
  /\ sStatus = [p \in Parties |-> "connecting"]
  /\ sBanner = "none"
  /\ sHow = [p \in Parties |-> None]
  /\ sLast = SLast("init", None, None, FALSE)

\* sendSignalingMessage of party p: the relay publishes on the call's
\* channel; the other party's callback gets the message if its channel is
\* subscribed at that moment
SSend(inbox, p, type) ==
  [q \in Parties |->
     IF q = Other(p) /\ q \in sSubscribed THEN Append(inbox[q], type) ELSE inbox[q]]

\* handleEndCall of party p, followed by the unmount: end-call is sent if
\* channelRef.current is set, cleanup() closes the connection and removes
\* the channel
SHandleEndCall(p, how) ==
  /\ sPc[p] \notin {"idle", "closed"}
  /\ sInbox' = [(IF p \in sSubscribed THEN SSend(sInbox, p, "end-call") ELSE sInbox)
                  EXCEPT ![p] = <<>>]
  /\ sPc' = [sPc EXCEPT ![p] = "closed"]
  /\ sSubscribed' = sSubscribed \ {p}
  /\ sSig' = [sSig EXCEPT ![p] = IF @ = None THEN None ELSE "closed"]
  /\ sStatus' = [sStatus EXCEPT ![p] = "ended"]
  /\ sHow' = [sHow EXCEPT ![p] = how]
  /\ sLast' = SLast(how, p, None, FALSE)
  /\ UNCHANGED <<sRemote, sBanner>>

\* handleStartCall up to its first await: onStartCall mounts the caller's
\* controller as initiator and initializeCall asks for the media
SStartCall ==
  /\ sPc["caller"] = "idle"
  /\ sBanner = "none"
  /\ sPc' = [sPc EXCEPT !["caller"] = "media"]
  /\ sBanner' = "sending"
  /\ sLast' = SLast("start", "caller", None, FALSE)
  /\ UNCHANGED <<sSubscribed, sInbox, sSig, sRemote, sStatus, sHow>>

\* the rest of handleStartCall and the callee's listener: incoming-call is
\* broadcast and setIncomingCall shows the banner
SRing ==
  /\ sBanner = "sending"
  /\ sBanner' = "ringing"
  /\ sLast' = SLast("ring", "callee", None, FALSE)
  /\ UNCHANGED <<sPc, sSubscribed, sInbox, sSig, sRemote, sStatus, sHow>>

\* handleAcceptCall: the callee's controller is mounted with
\* isInitiator: false and initializeCall asks for the media
SAccept ==
  /\ sBanner = "ringing"
  /\ sBanner' = "accepted"
  /\ sPc' = [sPc EXCEPT !["callee"] = "media"]
  /\ sLast' = SLast("accept", "callee", None, FALSE)
  /\ UNCHANGED <<sSubscribed, sInbox, sSig, sRemote, sStatus, sHow>>

\* getUserMedia resolves: new RTCPeerConnection, subscribeToSignaling awaited
SMedia(p) ==
  /\ sPc[p] = "media"
  /\ sPc' = [sPc EXCEPT ![p] = "subscribing"]
  /\ sSig' = [sSig EXCEPT ![p] = "stable"]
  /\ sLast' = SLast("media", p, None, FALSE)
  /\ UNCHANGED <<sSubscribed, sInbox, sRemote, sStatus, sBanner, sHow>>

\* the subscribe callback reports SUBSCRIBED; only the initiator goes on to
\* the settle delay and the offer
SSubscribeOk(p) ==
  /\ sPc[p] = "subscribing"
  /\ sSubscribed' = sSubscribed \cup {p}
  /\ sPc' = [sPc EXCEPT ![p] = AfterSubscribe(p = "caller")]
  /\ sLast' = SLast("subscribed", p, None, FALSE)
  /\ UNCHANGED <<sInbox, sSig, sRemote, sStatus, sBanner, sHow>>

\* initiator, after the 500 ms settle delay: createOffer,
\* setLocalDescription and the one offer of the session
SOffer(p) ==
  /\ sPc[p] = "delay"
  /\ sPc' = [sPc EXCEPT ![p] = "done"]
  /\ sSig' = [sSig EXCEPT ![p] = "have-local-offer"]
  /\ sInbox' = SSend(sInbox, p, "offer")
  /\ sLast' = SLast("offer", p, "offer", Other(p) \in sSubscribed)
  /\ UNCHANGED <<sSubscribed, sRemote, sStatus, sBanner, sHow>>

\* the broadcast callback of party p on the oldest message of its inbox
SDeliver(p) ==
  /\ p \in sSubscribed
  /\ sInbox[p] # <<>>
  /\ LET type == Head(sInbox[p]) IN
       CASE type = "offer" ->
              /\ sRemote' = [sRemote EXCEPT ![p] = TRUE]
              /\ sSig' = [sSig EXCEPT ![p] = "stable"]
              /\ sInbox' = [SSend(sInbox, p, "answer") EXCEPT ![p] = Tail(sInbox[p])]
              /\ sLast' = SLast("deliver", p, type, FALSE)
              /\ UNCHANGED <<sPc, sSubscribed, sStatus, sBanner, sHow>>
         [] type = "answer" ->
              /\ IF AnswerApplies(sSig[p])
                   THEN /\ sRemote' = [sRemote EXCEPT ![p] = TRUE]
                        /\ sSig' = [sSig EXCEPT ![p] = "stable"]
                   ELSE UNCHANGED <<sRemote, sSig>>
              /\ sInbox' = [sInbox EXCEPT ![p] = Tail(@)]
              /\ sLast' = SLast("deliver", p, type, FALSE)
              /\ UNCHANGED <<sPc, sSubscribed, sStatus, sBanner, sHow>>
         [] OTHER -> SHandleEndCall(p, "end-call")

\* the transport is sound: ICE connects once both connections hold both
\* descriptions
SCanConnect(p) ==
  /\ sStatus[p] = "connecting"
  /\ \A q \in Parties : sRemote[q] /\ sSig[q] = "stable"

\* pc.oniceconnectionstatechange with "connected": setCallStatus("connected")
SIceConnected(p) ==
  /\ SCanConnect(p)
  /\ sStatus' = [sStatus EXCEPT ![p] = "connected"]
  /\ sLast' = SLast("connected", p, None, FALSE)
  /\ UNCHANGED <<sPc, sSubscribed, sInbox, sSig, sRemote, sBanner, sHow>>

\* the 45 s timer of the initiator fires while the status is connecting
STimeout ==
  /\ sStatus["caller"] = "connecting"
  /\ SHandleEndCall("caller", "timeout")

\* the end-call button of party p
SHangUp(p) == SHandleEndCall(p, "hang-up")

----------------------------------------------------------------------------
NextNotify ==
  \/ \E u \in Users : NListen(u) /\ UNCHANGED <<relayVars, callVars, groupVars, historyVars, sessionVars>>
  \/ \E u \in Users, otherUserId \in Users, chatId \in Chats, callType \in {"video", "audio"} :
       NStartCall(u, otherUserId, chatId, callType) /\ UNCHANGED <<relayVars, callVars, groupVars, historyVars, sessionVars>>
  \/ \E u \in Users : NNotify(u) /\ UNCHANGED <<relayVars, callVars, groupVars, historyVars, sessionVars>>
  \/ \E u \in Users : NDeliver(u) /\ UNCHANGED <<relayVars, callVars, groupVars, historyVars, sessionVars>>
  \/ \E u \in Users : NAccept(u) /\ UNCHANGED <<relayVars, callVars, groupVars, historyVars, sessionVars>>
  \/ \E u \in Users : NDecline(u) /\ UNCHANGED <<relayVars, callVars, groupVars, historyVars, sessionVars>>
  \/ \E u \in Users : NDeclineDone(u) /\ UNCHANGED <<relayVars, callVars, groupVars, historyVars, sessionVars>>
  \/ \E u \in Users : NCloseCall(u) /\ UNCHANGED <<relayVars, callVars, groupVars, historyVars, sessionVars>>

NextCall ==
  \/ Open /\ UNCHANGED <<relayVars, groupVars, notifyVars, historyVars, sessionVars>>
  \/ MediaGranted /\ UNCHANGED <<muteVars, relayVars, groupVars, notifyVars, historyVars, sessionVars>>
  \/ MediaDenied /\ UNCHANGED <<muteVars, relayVars, groupVars, notifyVars, historyVars, sessionVars>>
  \/ SubscribeOk /\ UNCHANGED <<muteVars, relayVars, groupVars, notifyVars, historyVars, sessionVars>>
  \/ SubscribeFail /\ UNCHANGED <<muteVars, relayVars, groupVars, notifyVars, historyVars, sessionVars>>
  \/ InitCreateOffer /\ UNCHANGED <<muteVars, relayVars, groupVars, notifyVars, historyVars, sessionVars>>
  \/ InitSendOffer /\ UNCHANGED <<muteVars, relayVars, groupVars, notifyVars, historyVars, sessionVars>>
  \/ \E env \in Envelopes : Deliver(env) /\ UNCHANGED <<muteVars, relayVars, groupVars, notifyVars, historyVars, sessionVars>>
  \/ PcTrack /\ UNCHANGED <<muteVars, relayVars, groupVars, notifyVars, historyVars, sessionVars>>
  \/ \E state \in {"connected", "failed", "disconnected"} : PcIceState(state) /\ UNCHANGED <<muteVars, relayVars, groupVars, notifyVars, historyVars, sessionVars>>
  \/ PcIceCandidate /\ UNCHANGED <<muteVars, relayVars, groupVars, notifyVars, historyVars, sessionVars>>
  \/ Render /\ UNCHANGED <<muteVars, relayVars, groupVars, notifyVars, historyVars, sessionVars>>
  \/ HangUp /\ UNCHANGED <<muteVars, relayVars, groupVars, notifyVars, historyVars, sessionVars>>
  \/ Unmount /\ UNCHANGED <<muteVars, relayVars, groupVars, notifyVars, historyVars, sessionVars>>
  \/ Timeout /\ UNCHANGED <<muteVars, relayVars, groupVars, notifyVars, historyVars, sessionVars>>
  \/ ToggleMute /\ UNCHANGED <<relayVars, groupVars, notifyVars, historyVars, sessionVars>>

NextGroup ==
  \/ \E u \in GUsers : \E initial \in InitialParticipants(u) : GOpen(u, initial) /\ UNCHANGED <<relayVars, callVars, notifyVars, historyVars, sessionVars>>
  \/ \E u \in GUsers, granted \in BOOLEAN : GMedia(u, granted) /\ UNCHANGED <<relayVars, callVars, notifyVars, historyVars, sessionVars>>
  \/ \E u \in GUsers, ok \in BOOLEAN : GSubscribed(u, ok) /\ UNCHANGED <<relayVars, callVars, notifyVars, historyVars, sessionVars>>
  \/ \E u \in GUsers : GAnnounce(u) /\ UNCHANGED <<relayVars, callVars, notifyVars, historyVars, sessionVars>>
  \/ \E u \in GUsers, target \in GUsers : GConnect(u, target) /\ UNCHANGED <<relayVars, callVars, notifyVars, historyVars, sessionVars>>
  \/ \E u \in GUsers : GDeliver(u) /\ UNCHANGED <<relayVars, callVars, notifyVars, historyVars, sessionVars>>
  \/ \E u \in GUsers : GHangUp(u) /\ UNCHANGED <<relayVars, callVars, notifyVars, historyVars, sessionVars>>
  \/ \E u \in GUsers : GUnmount(u) /\ UNCHANGED <<relayVars, callVars, notifyVars, historyVars, sessionVars>>
  \/ \E env \in Unsolicited : GInject(env) /\ UNCHANGED <<relayVars, callVars, notifyVars, historyVars, sessionVars>>

vars == <<relayVars, callVars, groupVars, notifyVars, historyVars, sessionVars>>

Init == RelayInit /\ CallInit /\ GroupInit /\ NotifyInit /\ HistoryInit /\ SessionInit

NextRelay ==
  \/ RelayReceive /\ UNCHANGED <<callVars, groupVars, notifyVars, historyVars, sessionVars>>
  \/ RelayHandle /\ UNCHANGED <<callVars, groupVars, notifyVars, historyVars, sessionVars>>
  \/ RelayDone /\ UNCHANGED <<callVars, groupVars, notifyVars, historyVars, sessionVars>>

SpecRelay == Init /\ [][NextRelay]_vars

SpecCall == Init /\ [][NextCall]_vars

SpecGroup == Init /\ [][NextGroup]_vars

\* A device is in a 1:1 call or in a group call, never in both: the steps
\* of one controller are taken while the other has not been opened.
CallIdle == opens = 0

GroupIdle == \A u \in GUsers : gPc[u] = "idle" /\ injected = 0

NextControllers ==
  \/ GroupIdle /\ NextCall
  \/ CallIdle /\ NextGroup

SpecControllers == Init /\ [][NextControllers]_vars

SpecNotify == Init /\ [][NextNotify]_vars

\* the steps of the notification layer that need no user: a pending send, a
\* broadcast handed to a listener, the rest of a decline
NSystemStep ==
  /\ \E u \in Users : NNotify(u) \/ NDeliver(u) \/ NDeclineDone(u)
  /\ UNCHANGED <<relayVars, callVars, groupVars, historyVars, sessionVars>>

\* awaited sends resolve and the channel hands over what it holds; button
\* presses (start, accept, decline, close) may never come
SpecNotifyLive == SpecNotify /\ WF_vars(NSystemStep)

NextSession ==
  \/ SStartCall /\ UNCHANGED <<relayVars, callVars, groupVars, notifyVars, historyVars>>
  \/ SRing /\ UNCHANGED <<relayVars, callVars, groupVars, notifyVars, historyVars>>
  \/ SAccept /\ UNCHANGED <<relayVars, callVars, groupVars, notifyVars, historyVars>>
  \/ \E p \in Parties : SMedia(p) /\ UNCHANGED <<relayVars, callVars, groupVars, notifyVars, historyVars>>
  \/ \E p \in Parties : SSubscribeOk(p) /\ UNCHANGED <<relayVars, callVars, groupVars, notifyVars, historyVars>>
  \/ \E p \in Parties : SOffer(p) /\ UNCHANGED <<relayVars, callVars, groupVars, notifyVars, historyVars>>
  \/ \E p \in Parties : SDeliver(p) /\ UNCHANGED <<relayVars, callVars, groupVars, notifyVars, historyVars>>
  \/ \E p \in Parties : SIceConnected(p) /\ UNCHANGED <<relayVars, callVars, groupVars, notifyVars, historyVars>>
  \/ STimeout /\ UNCHANGED <<relayVars, callVars, groupVars, notifyVars, historyVars>>
  \/ \E p \in Parties : SHangUp(p) /\ UNCHANGED <<relayVars, callVars, groupVars, notifyVars, historyVars>>

SpecSession == Init /\ [][NextSession]_vars

----------------------------------------------------------------------------
\* The broadcast callback of one group controller, applied to every short
\* sequence of envelopes the room channel can hand it. The channel takes
\* what its subscribers publish, so a sender may be named more than once
\* and in any order.

MaxInbox == 2

HandlerUser == "A"

\* envelopes that pass `broadcast: { self: false }` and the recipient filter
HandlerEnvelopes ==
  {e \in GEnvelopes : e.from # HandlerUser /\ e.to \in {None, HandlerUser}}

HandlerInboxes == UNION {[1..n -> HandlerEnvelopes] : n \in 1..MaxInbox}

\* the connections the loop of initializeCall has created, in roster order
SeededPcs(initial) ==
  [i \in 1..Cardinality(initial) |-> NewPc(SeqOf(initial)[i], TRUE)]

\* the roster after the loop: createPeerConnection stores each connection
\* in its entry, unless the component was unmounted before the loop ran
SeededRoster(initial, isMounted) ==
  [i \in 1..Cardinality(initial) |->
     IF isMounted THEN [InitialRoster(initial)[i] EXCEPT !.pc = i]
     ELSE InitialRoster(initial)[i]]

SeededSent(initial) ==
  {<<"user-joined", None>>} \cup {<<"offer", v>> : v \in initial}

\* HandlerUser has finished initializeCall (media, SUBSCRIBED, user-joined,
\* loop); it is open, or its parent unmounted it while the subscription
\* was pending, which leaves the channel subscribed. The other members'
\* controllers run elsewhere.
HandlerGroupInit ==
  \E initial \in InitialParticipants(HandlerUser), isMounted \in BOOLEAN,
     inbox \in HandlerInboxes :
    /\ gPc = [u \in GUsers |-> IF u = HandlerUser THEN "done" ELSE "idle"]
    /\ gMounted = [u \in GUsers |-> u = HandlerUser /\ isMounted]
    /\ gInitial = [u \in GUsers |-> IF u = HandlerUser THEN initial ELSE {}]
    /\ gLoopLeft = [u \in GUsers |-> {}]
    /\ gLocalStream = [u \in GUsers |-> u = HandlerUser]
    /\ gStreamLive = [u \in GUsers |-> u = HandlerUser]
    /\ gRoster = [u \in GUsers |->
                    IF u = HandlerUser THEN SeededRoster(initial, isMounted) ELSE <<>>]
    /\ gChannelRef = [u \in GUsers |-> u = HandlerUser]
    /\ gJoined = [u \in GUsers |-> u = HandlerUser]
    /\ gPcs = [u \in GUsers |-> IF u = HandlerUser THEN SeededPcs(initial) ELSE <<>>]
    /\ gInbox = [u \in GUsers |-> IF u = HandlerUser THEN inbox ELSE <<>>]
    /\ gSent = [u \in GUsers |-> IF u = HandlerUser THEN SeededSent(initial) ELSE {}]
    /\ gLast = GNoEvent
    /\ gErr = FALSE
    /\ injected = 0

InitHandler ==
  RelayInit /\ CallInit /\ HandlerGroupInit /\ NotifyInit /\ HistoryInit /\ SessionInit

NextHandler ==
  \E u \in GUsers :
    GDeliver(u) /\ UNCHANGED <<relayVars, callVars, notifyVars, historyVars, sessionVars>>

SpecHandler == InitHandler /\ [][NextHandler]_vars

\* The signaling callbacks of both controllers: a 1:1 controller from its
\* opening on, or the group callback on the envelopes handed to it.
NextCallbacks ==
  \/ GroupIdle /\ NextCall
  \/ CallIdle /\ NextHandler

SpecCallbacks == (Init \/ InitHandler) /\ [][NextCallbacks]_vars


(***************************************************************************)
(* Claims about the Signaling Relay (checked under SpecRelay)              *)
(***************************************************************************)
RelayPublished == IF relayPc = "responded" THEN relayResp.published ELSE <<>>

\* C1: every broadcast the relay publishes carries from = the user the
\* bearer credential resolves to, and serving the same request with any
\* other client-supplied from value publishes the very same payload.
C1_FromIsCaller ==
  relayPc = "responded" =>
    /\ \A i \in 1..Len(relayResp.published) :
         relayResp.published[i].payload.from = GetUser(relayReq.authHeader)
    /\ \A h \in {None} \cup Users :
         RelayServe([relayReq EXCEPT !.from = h]).published = relayResp.published

\* a spoofing attempt was relayed: the body names another user as sender
C1_Witness ==
  /\ relayPc = "responded"
  /\ relayResp.published # <<>>
  /\ relayReq.from \in Users
  /\ relayReq.from # GetUser(relayReq.authHeader)

\* C2 (as claimed): whenever the relay publishes on channel prefix-id, the
\* caller is a member of the chat/room id that names that channel.
C2_PublishOnlyToOwnChat ==
  \A i \in 1..Len(RelayPublished) :
    <<RelayPublished[i].channel[2], RelayPublished[i].payload.from>> \in ChatMembers

\* C3 (as claimed): an authenticated request with a typed message and an
\* unrecognized callType is answered 400 "Invalid call type", whatever the
\* chat id and the membership of the caller.
C3_AlwaysInvalidCallType ==
  ( /\ relayPc = "responded"
    /\ relayReq.method = "POST"
    /\ Authenticated(relayReq)
    /\ relayReq.fault # "json"
    /\ relayReq.message = "offer"
    /\ relayReq.callType \notin CallTypes )
  => ( /\ relayResp.status = 400
       /\ relayResp.body = "Invalid call type"
       /\ relayResp.published = <<>> )

\* C3 (amended): such a request is answered 400 "Invalid call type" when the
\* membership lookup for chatId || roomId finds the caller and 403 "Not
\* authorized for this chat" when it does not; nothing is published.
C3_InvalidCallTypeAfterMembership ==
  ( /\ relayPc = "responded"
    /\ relayReq.method = "POST"
    /\ Authenticated(relayReq)
    /\ relayReq.fault # "json"
    /\ relayReq.message = "offer"
    /\ relayReq.callType \notin CallTypes )
  => ( /\ relayResp.published = <<>>
       /\ IF relayReq.fault # "db"
             /\ <<ChatOrRoom(relayReq), GetUser(relayReq.authHeader)>> \in ChatMembers
          THEN relayResp.status = 400 /\ relayResp.body = "Invalid call type"
          ELSE relayResp.status = 403 /\ relayResp.body = "Not authorized for this chat" )

\* a member sent callType "teleport" and was answered
C3_Witness ==
  /\ relayPc = "responded"
  /\ relayReq.method = "POST"
  /\ relayReq.callType = "teleport"
  /\ relayReq.message = "offer"
  /\ relayReq.fault = "none"
  /\ GetUser(relayReq.authHeader) = "u1"
  /\ relayReq.chatId = "c1"
  /\ relayResp.status = 400

\* C4: the relay publishes only when every check passed; a request (other
\* than a CORS preflight) without Authorization header or valid user gets
\* 401 with no membership lookup and no publish; success is returned only
\* with exactly one signaling broadcast, on the channel computed from
\* callType and the chat/room id.
C4_PublishOnlyAfterAllChecks ==
  relayPc = "responded" =>
    /\ relayResp.published # <<>> =>
         /\ relayReq.authHeader # None
         /\ GetUser(relayReq.authHeader) # None
         /\ relayReq.message = "offer"
         /\ relayReq.fault # "db"
         /\ <<ChatOrRoom(relayReq), GetUser(relayReq.authHeader)>> \in ChatMembers
         /\ relayReq.callType \in CallTypes
    /\ ( relayReq.method = "POST"
         /\ (relayReq.authHeader = None \/ GetUser(relayReq.authHeader) = None) )
       => ( /\ relayResp.status = 401
            /\ relayResp.lookups = 0
            /\ relayResp.published = <<>> )
    /\ relayResp.body = "success" =>
         /\ relayResp.status = 200
         /\ Len(relayResp.published) = 1
         /\ relayResp.published[1].event = "signaling"
         /\ relayResp.published[1].channel = ChannelName(relayReq)
         /\ relayResp.published[1].channel[1] \in
              {"video-call", "audio-call", "group-video-call", "group-audio-call"}

\* a request with an unusable credential was rejected, and one was relayed
C4_Witness ==
  /\ relayPc = "responded"
  /\ relayReq.method = "POST"
  /\ relayReq.authHeader = "Bearer bad"
  /\ relayReq.message = "offer"
  /\ relayReq.callType = "video"
  /\ relayReq.chatId = "c1"
  /\ relayResp.status = 401


(***************************************************************************)
(* Claims about the 1:1 Call Controller (checked under SpecCall)           *)
(***************************************************************************)

\* C5 (as claimed): each open acquires local media at most once, and once
\* the controller is closed no acquired track and no created peer
\* connection is still live.
C5_CloseReleasesEverything ==
  /\ acquired <= 1
  /\ ~mounted => (liveStreams = {} /\ openPcs = {})

\* C6 (as claimed): when the unanswered-call timeout ends an initiator's
\* call that never left connecting, the status is ended, the outcome is
\* not-answered and exactly one end-call has been sent.
C6_TimeoutSendsOneEndCall ==
  (last.ev = "timeout" /\ last.type = "connecting") =>
    /\ isInitiator
    /\ callStatus = "ended"
    /\ lastToast = "not-answered"
    /\ sent["end-call"] = 1

\* C6 (amended): ... exactly one end-call has been sent if the signaling
\* subscription had reported SUBSCRIBED before the timeout fired, and none
\* if the subscription (or the media request before it) was still pending.
C6_TimeoutSendsEndCallIfSubscribed ==
  (last.ev = "timeout" /\ last.type = "connecting") =>
    /\ isInitiator
    /\ callStatus = "ended"
    /\ ~mounted
    /\ lastToast = "not-answered"
    /\ sent["end-call"] = IF initPc \in {"delay", "setLocal", "done"} THEN 1 ELSE 0

\* the timeout ended a call whose offer had been sent and never answered
C6_Witness ==
  /\ last.ev = "timeout"
  /\ last.type = "connecting"
  /\ initPc = "done"
  /\ sent["offer"] = 1
  /\ sent["end-call"] = 1
  /\ pcRemote = None

\* C7 (as claimed): whenever an offer is processed for a remote user whose
\* connection already carried a remote description, that earlier
\* connection has been closed first.
C7_StaleConnectionClosedBeforeOffer ==
  [][ ( /\ delivered' = delivered + 1
        /\ last'.type = "offer"
        /\ ~last'.flag
        /\ pcRemote # None )
      => pc \notin openPcs' ]_vars

\* the controller of u holds a connection to from that awaits an answer
GAwaitsAnswer(u, from) ==
  \E i \in DOMAIN gPcs[u] :
    gPcs[u][i].target = from /\ gPcs[u][i].sig = "have-local-offer"

\* the 1:1 callback handles an answer while the connection is not in
\* have-local-offer: nothing changes
StaleAnswerStep ==
  ( /\ delivered' = delivered + 1
    /\ last'.type = "answer"
    /\ pcSig # "have-local-offer" )
  => ( /\ pcSig' = pcSig
       /\ pcRemote' = pcRemote
       /\ pcLocal' = pcLocal
       /\ sent' = sent
       /\ callStatus' = callStatus
       /\ ~last'.flag )

\* the group callback of u handles an answer from a sender for whom u
\* holds no connection in have-local-offer: nothing changes
GStaleAnswerStep ==
  \A u \in GUsers :
    ( /\ gInbox[u] # <<>>
      /\ Head(gInbox[u]).type = "answer"
      /\ gLast'.by = u
      /\ gLast'.type = "answer"
      /\ gInbox'[u] = Tail(gInbox[u])
      /\ ~GAwaitsAnswer(u, Head(gInbox[u]).from) )
    => ( /\ gPcs' = gPcs
         /\ gRoster' = gRoster
         /\ gSent' = gSent
         /\ gErr' = gErr
         /\ \A v \in GUsers \ {u} : gInbox'[v] = gInbox[v] )

\* C9: an answer delivered to a Peer Session that is not in
\* have-local-offer changes neither its signaling state nor its
\* descriptions, raises no error and sends nothing, in the 1:1 controller
\* and in the group controller.
C9_StaleAnswerIsNoop == [][StaleAnswerStep /\ GStaleAnswerStep]_vars

\* an answer reached a connection that never had an outstanding offer
C9_Witness ==
  /\ last.ev = "deliver"
  /\ last.type = "answer"
  /\ pcSig = "stable"
  /\ pcLocal = None
  /\ pcRemote = None

\* the users to whom the controller of u holds an open connection
GSessions(u) ==
  {gPcs[u][i].target : i \in {j \in DOMAIN gPcs[u] : gPcs[u][j].open}}

\* every member has joined and stayed, initializeCall has finished on all
\* three and the channel has nothing left to deliver
GSettled ==
  /\ \A u \in GUsers : gPc[u] = "done" /\ gMounted[u] /\ gInbox[u] = <<>>
  /\ Disturbances = 0

\* C8 (as claimed): once A, B and C have joined and every broadcast has
\* been handled, A holds exactly two Peer Sessions, to B and to C, and B
\* holds a Peer Session to A and one to C.
C8_MeshSettles ==
  GSettled =>
    /\ GSessions("A") = {"B", "C"}
    /\ Len(gPcs["A"]) = 2
    /\ {"A", "C"} \subseteq GSessions("B")

\* C10 (as claimed): the call-declined event of a decline is published on
\* the channel the caller's listener is subscribed to, and reaches it.
C10_DeclineOnCallerChannel ==
  nLast.ev = "decline" =>
    /\ nLast.channel = ListenerChannel(nLast.peer)
    /\ nLast.peer \in nLast.receivers

\* C11 (as claimed): once the callee has declined a call, its notification
\* is cleared when the decline completes and no controller is ever opened
\* on the callee side for that call.
C11_DeclinedCallNeverAnswered ==
  /\ declined \cap answered = {}
  /\ \A u \in Users :
       (nLast.ev = "declined" /\ nLast.by = u) => incomingCall[u] = NoIncoming

\* the moves of callStatus the claim allows
StatusMoves ==
  {<<"connecting", "connected">>, <<"connected", "ended">>, <<"connecting", "ended">>}

\* C12: a controller starts in connecting; within one open the status only
\* moves connecting -> connected -> ended or connecting -> ended, and after
\* ended no track, ICE or signaling event changes it again.
C12_StatusOnlyMovesForward ==
  [][ /\ opens' # opens => callStatus' = "connecting"
      /\ opens' = opens =>
            (callStatus' = callStatus \/ <<callStatus, callStatus'>> \in StatusMoves) ]_vars

\* a remote track arrived after teardown had set ended
C12_Witness ==
  /\ callStatus = "ended"
  /\ last.ev = "track"
  /\ ~mounted

\* initializeCall is suspended at one of its awaits
InFlight == {"media", "media2", "subscribing", "delay", "setLocal"}

\* C13 (as claimed): once the 1:1 controller is torn down, a step of
\* initializeCall that resumes from its await creates no Peer Session, sets
\* no session description, changes no status and sends no signaling message.
C13_NoInFlightStepAfterTeardown ==
  [][ (opens > 0 /\ ~mounted /\ initPc \in InFlight /\ initPc' # initPc)
        => UNCHANGED <<pc, pcLocal, pcRemote, callStatus, sent>> ]_vars

\* C14 (as claimed): after teardown of the 1:1 controller neither the
\* duration interval nor the unanswered-call timeout is scheduled and the
\* signaling channel it subscribed is removed, also when teardown came
\* before SUBSCRIBED, so that nothing is delivered to the closed session.
C14_TeardownReleasesTimersAndChannel ==
  (opens > 0 /\ ~mounted) =>
     /\ ~callTimeoutRef
     /\ ~callTimerRef
     /\ opens \notin joinedChans

\* the part that holds: both timers are cleared by every teardown
C14_TimersCleared ==
  (opens > 0 /\ ~mounted) => (~callTimeoutRef /\ ~callTimerRef)

\* C15 (as claimed): when the ICE connection state of the 1:1 session
\* becomes failed or disconnected the controller is torn down (tracks
\* stopped, session closed, channel removed, component closed) and the
\* connection-lost notification is shown.
C15_IceFailureTearsDown ==
  (last.ev = "ice" /\ last.type \in {"failed", "disconnected"}) =>
     /\ lastToast = "connection-lost"
     /\ ~mounted
     /\ stream \notin liveStreams
     /\ pc \notin openPcs
     /\ opens \notin joinedChans

\* C16 (as claimed): every envelope a group controller handles was sent by
\* the member named in its from field, no member being able to put another
\* sender's name on an envelope.
C16_GroupSenderIsAuthentic ==
  gLast.by # None => <<gLast.type, gLast.to>> \in gSent[gLast.from]

\* C17 (as claimed): when the unanswered-call timeout has ended the
\* initiator's call, call_history holds a record of that call with status
\* no-answer or missed.
C17_TimeoutWritesHistory ==
  last.ev = "timeout" =>
    \E entry \in callHistory :
       /\ entry.caller_id = Me
       /\ entry.receiver_id = Peer
       /\ entry.status \in {"no-answer", "missed"}

\* C18: in every local stream state two calls of toggleMute give back the
\* audio track's enabled flag and isMuted, and a call of toggleMute leaves
\* the signaling state, the descriptions, the status and the messages sent
\* as they were.
C18_ToggleMuteTwiceRestores ==
  /\ [](Toggled(Toggled(MuteState)) = MuteState)
  /\ [][(opens' = opens /\ isMuted' # isMuted)
          => UNCHANGED <<pcSig, pcLocal, pcRemote, callStatus, sent>>]_vars

\* the button was pressed a second time on an acquired stream
C18_Witness ==
  /\ mounted
  /\ last.ev = "mute"
  /\ last.flag
  /\ ~isMuted
  /\ audioEnabled

\* the step in which the subscription reports SUBSCRIBED
SubscribedStep ==
  /\ initPc = "subscribing"
  /\ channelRef' = opens
  /\ opens \in joinedChans'

\* C19: within one open an offer is sent only by an initiator, only once,
\* and only by the step of initializeCall that follows the settle delay,
\* which is entered only when the subscription has reported SUBSCRIBED; a
\* non-initiator never sends an offer.
C19_OfferOnlyByInitiatorAfterSubscribed ==
  [][ opens' = opens =>
        /\ sent'["offer"] # sent["offer"] =>
              (isInitiator /\ sent["offer"] = 0 /\ initPc = "setLocal")
        /\ (initPc' = "setLocal" /\ initPc # "setLocal") => initPc = "delay"
        /\ (initPc' = "delay" /\ initPc # "delay") => SubscribedStep ]_vars

\* an initiator has sent its offer
C19_Witness ==
  /\ isInitiator
  /\ last.ev = "send-offer"
  /\ ~last.flag
  /\ sent["offer"] = 1

\* the channel hands u an offer addressed to it while u is open, has its
\* local media and holds no Peer Session for the sender
GFreshOfferStep(u) ==
  /\ gInbox[u] # <<>>
  /\ Head(gInbox[u]).type = "offer"
  /\ Head(gInbox[u]).to = u
  /\ gMounted[u] /\ gLocalStream[u]
  /\ \A i \in DOMAIN gPcs[u] : gPcs[u][i].target # Head(gInbox[u]).from
  /\ gLast'.by = u
  /\ gInbox'[u] = Tail(gInbox[u])

\* C20 (as claimed): a group controller that has its local media and
\* receives an offer from a sender for whom it holds no Peer Session
\* creates a non-initiator session for that sender, applies the offer and
\* sends an answer addressed to the sender.
C20_FreshOfferIsAnswered ==
  [][ \A u \in GUsers :
        GFreshOfferStep(u) =>
          LET from == Head(gInbox[u]).from IN
          /\ \E i \in DOMAIN gPcs'[u] :
                /\ gPcs'[u][i].target = from
                /\ gPcs'[u][i].remote = "offer"
                /\ gPcs'[u][i].local = "answer"
          /\ <<"answer", from>> \in gSent'[u] ]_vars

\* the users in the roster of u
GRosterIds(u) == {gRoster[u][i].userId : i \in DOMAIN gRoster[u]}

\* the channel hands u a user-joined of a sender that is neither u nor in
\* the roster of u, while u is open and has its local media
GUnknownJoinedStep(u) ==
  /\ gInbox[u] # <<>>
  /\ Head(gInbox[u]).type = "user-joined"
  /\ Head(gInbox[u]).from \notin GRosterIds(u) \cup {u}
  /\ gMounted[u] /\ gLocalStream[u]
  /\ gLast'.by = u
  /\ gInbox'[u] = Tail(gInbox[u])

\* C21 (as claimed): a group controller that has its local media and
\* receives user-joined from a sender it does not know adds the sender to
\* the roster, creates an initiator-side session to them and sends them an
\* offer.
C21_UnknownJoinedIsOffered ==
  [][ \A u \in GUsers :
        GUnknownJoinedStep(u) =>
          LET from == Head(gInbox[u]).from IN
          /\ from \in {gRoster'[u][i].userId : i \in DOMAIN gRoster'[u]}
          /\ \E i \in DOMAIN gPcs'[u] :
                /\ gPcs'[u][i].target = from
                /\ gPcs'[u][i].local = "offer"
          /\ <<"offer", from>> \in gSent'[u] ]_vars

\* the channel hands u a user-left that passes the recipient filter
GUserLeftStep(u) ==
  /\ gInbox[u] # <<>>
  /\ Head(gInbox[u]).type = "user-left"
  /\ Head(gInbox[u]).to \in {None, u}
  /\ gLast'.by = u
  /\ gInbox'[u] = Tail(gInbox[u])

\* the roster entries of u other than those of user s
GOthers(roster, s) == SelectSeq(roster, LAMBDA p : p.userId # s)

\* what handling user-left from s must leave behind at u
GLeftEffect(u, s) ==
  /\ s \notin {gRoster'[u][i].userId : i \in DOMAIN gRoster'[u]}
  /\ \A i \in DOMAIN gPcs[u] : gPcs[u][i].target = s => ~gPcs'[u][i].open
  /\ gRoster'[u] = GOthers(gRoster[u], s)
  /\ DOMAIN gPcs'[u] = DOMAIN gPcs[u]
  /\ \A i \in DOMAIN gPcs[u] : gPcs[u][i].target # s => gPcs'[u][i] = gPcs[u][i]

\* C22 (as claimed): once a group controller has handled user-left from
\* S its roster has no entry for S, the Peer Sessions it held for S are
\* closed, and the entries and sessions of everybody else are as before.
C22_UserLeftRemovesParticipant ==
  [][ \A u \in GUsers : GUserLeftStep(u) => GLeftEffect(u, Head(gInbox[u]).from) ]_vars

\* the part that holds: the same for a controller that is still open and
\* whose roster entry of S carries the session
C22_HoldsWhileOpen ==
  [][ \A u \in GUsers : (GUserLeftStep(u) /\ gMounted[u])
                            => GLeftEffect(u, Head(gInbox[u]).from) ]_vars

\* u has left the call through handleEndCall: its user-left went out
GHasLeft(u) == <<"user-left", None>> \in gSent[u]

\* C23 (as claimed): once the local user has left a group call (user-left
\* broadcast, then cleanup) the roster is empty, no Peer Session the
\* controller owns is open, the local tracks are stopped and the channel
\* subscription is removed.
C23_LeavingClosesEverything ==
  \A u \in GUsers :
    GHasLeft(u) =>
      /\ gRoster[u] = <<>>
      /\ \A i \in DOMAIN gPcs[u] : ~gPcs[u][i].open
      /\ ~gStreamLive[u]
      /\ ~gJoined[u]

\* the 1:1 callback handles an ice-candidate
IceCandidateStep ==
  ( /\ delivered' = delivered + 1
    /\ last'.type \in {"ice-added", "ice-dropped"} )
  => ( /\ last'.type = "ice-added" <=> pcRemote # None
       /\ pcRemote = None => ~last'.flag
       /\ UNCHANGED <<pcSig, pcLocal, pcRemote, callStatus, mounted, sent>> )

\* the group callback of u handles an ice-candidate of a sender for whom u
\* holds no session with a remote description
GEarlyCandidateStep ==
  \A u \in GUsers :
    ( /\ gInbox[u] # <<>>
      /\ Head(gInbox[u]).type = "ice-candidate"
      /\ gLast'.by = u
      /\ gInbox'[u] = Tail(gInbox[u])
      /\ \A i \in DOMAIN gPcs[u] :
            gPcs[u][i].target = Head(gInbox[u]).from => gPcs[u][i].remote = None )
    => ( /\ gPcs' = gPcs
         /\ gRoster' = gRoster
         /\ gSent' = gSent
         /\ gErr' = gErr
         /\ \A v \in GUsers \ {u} : gInbox'[v] = gInbox[v] )

\* C24: an ice-candidate is added to a session only if the session has a
\* remote description; one that arrives earlier (in a group call: from a
\* sender without such a session) is dropped, raises no error and changes
\* neither the session nor the call.
C24_EarlyCandidateIsDropped == [][IceCandidateStep /\ GEarlyCandidateStep]_vars

\* a candidate reached an open connection that had no remote description
C24_Witness ==
  /\ last.ev = "deliver"
  /\ last.type = "ice-dropped"
  /\ pc \in openPcs
  /\ pcRemote = None
  /\ ~last.flag

\* the second getUserMedia has just been rejected
MediaGaveUp == last.ev = "media-denied" /\ last.type = "media2"

----------------------------------------------------------------------------
(***************************************************************************)
(* Claims about the 1:1 Call Session (checked under SpecSession)           *)
(***************************************************************************)
\* no controller of the session has been torn down
SessionUndisturbed == \A p \in Parties : sHow[p] = None

\* the callee accepted, both initializeCall have returned and the channel
\* has handed over every message
SessionSettled ==
  /\ sBanner = "accepted"
  /\ \A p \in Parties : sPc[p] = "done" /\ sInbox[p] = <<>>

\* C26: when the callee accepts a ringing call before the caller's timeout
\* and nobody hangs up, the caller's offer is received by the callee's
\* controller and both controllers reach connected: once the session has
\* settled, the callee holds the offer as its remote description and each
\* controller is connected or about to be.
C26_AcceptedCallConnects ==
  SessionUndisturbed /\ SessionSettled =>
    /\ sRemote["callee"]
    /\ \A p \in Parties : sStatus[p] = "connected" \/ SCanConnect(p)

----------------------------------------------------------------------------
(***************************************************************************)
(* Claims about the Call Notification Layer under fairness                 *)
(* (checked under SpecNotifyLive)                                          *)
(***************************************************************************)
\* user u is shown the banner of a call whose caller has no controller any
\* more (handleCloseCall has run on the caller's side)
NRingsForEndedCall(u) ==
  /\ incomingCall[u] # NoIncoming
  /\ activeCall[incomingCall[u].callerId] = NoCall

\* C27: when the caller's call ends before the callee accepted or declined,
\* the callee's pending incoming-call notification is eventually cleared:
\* a callee is not left ringing for a call whose caller-side controller is
\* gone.
C27_EndedCallStopsRinging ==
  \A u \in Users : NRingsForEndedCall(u) ~> (incomingCall[u] = NoIncoming)

----------------------------------------------------------------------------
(***************************************************************************)
(* Claims about the roster of the Group Call Controller                    *)
(* (checked under SpecHandler)                                             *)
(***************************************************************************)
\* C28: the roster of a Group Call Controller holds at most one entry per
\* user identifier, whatever user-joined and user-left messages arrive,
\* a user-joined of one unknown sender delivered twice included.
C28_RosterHasNoDuplicates ==
  \A u \in GUsers : \A i, j \in DOMAIN gRoster[u] :
     gRoster[u][i].userId = gRoster[u][j].userId => i = j

----------------------------------------------------------------------------
(***************************************************************************)
(* Further claims about the 1:1 Call Controller (checked under SpecCall)   *)
(***************************************************************************)
\* C29: within one session (one mount) a 1:1 controller sends at most one
\* end-call, whatever teardown triggers come and in whatever order.
C29_AtMostOneEndCall == sent["end-call"] <= 1

\* an end-call has been sent and a later trigger (the connection reports
\* failed or disconnected after the teardown) ran handleEndCall again
C29_Witness ==
  /\ sent["end-call"] = 1
  /\ last.ev = "ice"
  /\ last.type \in {"failed", "disconnected"}
  /\ ~last.flag

\* C30: the unanswered-call timeout ends a 1:1 call only on the initiator
\* side and only while the status is still connecting: a call whose status
\* reached connected is never ended by the timeout, and a non-initiator
\* never ends by the timeout.  (last.type of a timeout step is the
\* callStatus the controller had when the timer fired.)
C30_TimeoutOnlyWhileConnecting ==
  last.ev = "timeout" => isInitiator /\ last.type = "connecting"
=============================================================================
